---- MODULE Spec2Model ----
(***************************************************************************)
(* A model of the yusi LALR(1) parser generator core: the BitSet of        *)
(* src/parser/bitset.rs and its iterator, the nullable / FIRST fixpoints   *)
(* and compute_first_for_symbols of src/parser/sets.rs, Grammar::validate  *)
(* of src/grammar.rs, the lowering of a Grammar to a Bnf and its           *)
(* augmentation of src/bnf.rs, and gen_states of src/parser/state.rs.      *)
(*                                                                         *)
(* Conventions.  Rust vectors are TLA+ sequences; a Rust index i is the    *)
(* TLA+ index i + 1.  A Range<usize> is a record [start, end] (end         *)
(* exclusive).  An Option<u16> is the empty sequence (None) or a one       *)
(* element sequence (Some).  A u64 block of a BitSet is the set of the     *)
(* positions of its 1 bits, so that | is \cup, & is \cap and x != 0 is     *)
(* x # {}.  An Option<usize> is the empty sequence or <<x>> as well.        *)
(***************************************************************************)
EXTENDS Integers, Sequences, FiniteSets, TLC

VARIABLES
  bs_self, bs_other, ret, op, inserted, it, item, yielded,
  bnf, nullable, first, changed, next_prod, cf_result, cf_symbols, cf_lookaheads,
  grammar, result,
  tokens, starts, nonterms, prods, symbols, rule_ix, states, state_starts,
  pc

bitVars == <<bs_self, bs_other, ret, op, inserted, it, item, yielded>>
firstOfVars == <<cf_result, cf_symbols, cf_lookaheads>>
setsVars == <<bnf, nullable, first, changed, next_prod, firstOfVars>>
gramVars == <<grammar, result>>
lowerVars == <<tokens, starts, nonterms, prods, symbols, rule_ix, states, state_starts>>
vars == <<bitVars, setsVars, gramVars, lowerVars, pc>>

(***************************************************************************)
(* Parts of the state a specification does not use stay at these values.   *)
(***************************************************************************)
BitIdle ==
  /\ bs_self = <<>> /\ bs_other = <<>> /\ ret = FALSE /\ op = "" /\ inserted = {}
  /\ it = <<>> /\ item = <<>> /\ yielded = <<>>
FirstOfIdle == cf_result = <<>> /\ cf_symbols = <<>> /\ cf_lookaheads = <<>>
SetsIdle ==
  /\ bnf = <<>> /\ nullable = <<>> /\ first = <<>> /\ changed = FALSE /\ next_prod = 0
  /\ FirstOfIdle
GramIdle == grammar = <<>> /\ result = ""
LowerIdle ==
  /\ tokens = <<>> /\ starts = <<>> /\ nonterms = <<>> /\ prods = <<>>
  /\ symbols = <<>> /\ rule_ix = 0 /\ states = <<>> /\ state_starts = <<>>

\* The elements of a sequence.
Range(seq) == {seq[i] : i \in DOMAIN seq}

(***************************************************************************)
(*                       BitSet (src/parser/bitset.rs)                     *)
(***************************************************************************)

\* Width of a block in bits: size_of::<u64>() * 8.
BLOCK_NBITS == 64

\* Size the two bit sets are created with: two blocks, the second one partial.
NumBits == 66

\* The indices the operations are tried on: both ends of the first block, the
\* first bit of the second block and the last valid bit.
BitIndices == {0, 1, 2, 3, BLOCK_NBITS - 1, BLOCK_NBITS, NumBits - 1}

\* The positions of the 1 bits of the number n < 64 (n as a u64 mask).
MaskOf(n) == {k \in 0..5 : (n \div (2 ^ k)) % 2 = 1}

\* BitSet::new
new(num_bits) ==
  LET len == (num_bits + BLOCK_NBITS - 1) \div BLOCK_NBITS
  IN  [i \in 1..len |-> {}]

\* BitSet::clear
clear(slice) == [i \in DOMAIN slice |-> {}]

\* BitSet::insert: slice[bit / 64] |= 1 << (bit % 64)
insert(slice, bit) ==
  [slice EXCEPT ![bit \div BLOCK_NBITS + 1] = @ \cup {bit % BLOCK_NBITS}]

\* A union_with that reports only whether the last block changed.
union_with_last_block(slice, other) ==
  LET merged == [i \in DOMAIN slice |-> slice[i] \cup other[i]]
  IN  [slice |-> merged,
       changed |-> Len(slice) > 0 /\ slice[Len(slice)] # merged[Len(slice)]]

\* BitSet::union_with: every block is or-ed with the other's block; changed
\* accumulates old != new over the blocks.
union_with(slice, other) ==
  LET merged == [i \in DOMAIN slice |-> slice[i] \cup other[i]]
  IN  [slice |-> merged,
       changed |-> \E i \in DOMAIN slice : slice[i] # merged[i]]

\* BitSet::get: slice[bit / 64] & (bit % 64) != 0.  The mask is the number
\* bit % 64 itself, not 1 << (bit % 64).
get(slice, bit) ==
  (slice[bit \div BLOCK_NBITS + 1] \cap MaskOf(bit % BLOCK_NBITS)) # {}

\* u64::trailing_zeros: the position of the lowest 1 bit, 64 for the block 0.
trailing_zeros(block) ==
  IF block = {} THEN BLOCK_NBITS
  ELSE CHOOSE k \in block : \A j \in block : k <= j

\* An Iter::next that resumes a new block at bit 1.
RECURSIVE next_from_bit_one(_, _)
next_from_bit_one(slice, iter) ==
  IF iter.index < Len(slice)
  THEN LET bit == trailing_zeros({k \in slice[iter.index + 1] : k >= iter.bit})
       IN  IF iter.bit < BLOCK_NBITS /\ bit < BLOCK_NBITS
           THEN [iter |-> [bit |-> bit + 1, index |-> iter.index],
                 item |-> <<iter.index * BLOCK_NBITS + bit>>]
           ELSE next_from_bit_one(slice, [bit |-> 1, index |-> iter.index + 1])
  ELSE [iter |-> iter, item |-> <<>>]

\* Iter::next on the Iter iter = [bit, index] over slice: the Iter it leaves
\* and the item it returns.  slice[index] & !((1 << bit) - 1) keeps the bits of
\* the block at positions >= bit.
RECURSIVE next(_, _)
next(slice, iter) ==
  IF iter.index < Len(slice)
  THEN LET bit == trailing_zeros({k \in slice[iter.index + 1] : k >= iter.bit})
       IN  IF iter.bit < BLOCK_NBITS /\ bit < BLOCK_NBITS
           THEN [iter |-> [bit |-> bit + 1, index |-> iter.index],
                 item |-> <<iter.index * BLOCK_NBITS + bit>>]
           ELSE next(slice, [bit |-> 0, index |-> iter.index + 1])
  ELSE [iter |-> iter, item |-> <<>>]

\* The indices a slice holds.
Members(slice) ==
  UNION {{BLOCK_NBITS * (i - 1) + k : k \in slice[i]} : i \in DOMAIN slice}

BitSetInit ==
  /\ bs_self = new(NumBits)
  /\ bs_other = new(NumBits)
  /\ ret = FALSE
  /\ op = "new"
  /\ inserted = {}
  /\ it = <<>> /\ item = <<>> /\ yielded = <<>>
  /\ pc = "bitset"
  /\ SetsIdle /\ GramIdle /\ LowerIdle

\* other.insert(i); inserted records the indices inserted since the last clear.
\* A live Iter borrows other, so insert and clear wait until it is dropped.
Insert(i) ==
  /\ it = <<>>
  /\ bs_other' = insert(bs_other, i)
  /\ inserted' = inserted \cup {i}
  /\ op' = "insert"
  /\ UNCHANGED <<bs_self, ret, it, item, yielded, setsVars, gramVars, lowerVars, pc>>

\* other.clear()
Clear ==
  /\ it = <<>>
  /\ bs_other' = clear(bs_other)
  /\ inserted' = {}
  /\ op' = "clear"
  /\ UNCHANGED <<bs_self, ret, it, item, yielded, setsVars, gramVars, lowerVars, pc>>

\* ret = self.union_with(&other)
UnionWith ==
  /\ bs_self' = union_with(bs_self, bs_other).slice
  /\ ret' = union_with(bs_self, bs_other).changed
  /\ op' = "union_with"
  /\ UNCHANGED <<bs_other, inserted, it, item, yielded, setsVars, gramVars, lowerVars, pc>>

\* it = other.iter(); yielded records the items next returns to this Iter.
Iter ==
  /\ it = <<>>
  /\ it' = [bit |-> 0, index |-> 0]
  /\ item' = <<>>
  /\ yielded' = <<>>
  /\ op' = "iter"
  /\ UNCHANGED <<bs_self, bs_other, ret, inserted, setsVars, gramVars, lowerVars, pc>>

\* item = it.next(), until it returns None.
IterNext ==
  /\ it # <<>>
  /\ op = "next" => item # <<>>
  /\ it' = next(bs_other, it).iter
  /\ item' = next(bs_other, it).item
  /\ yielded' = yielded \o next(bs_other, it).item
  /\ op' = "next"
  /\ UNCHANGED <<bs_self, bs_other, ret, inserted, setsVars, gramVars, lowerVars, pc>>

\* The Iter is dropped and its borrow of other ends.
IterDrop ==
  /\ it # <<>>
  /\ it' = <<>>
  /\ item' = <<>>
  /\ yielded' = <<>>
  /\ op' = "drop"
  /\ UNCHANGED <<bs_self, bs_other, ret, inserted, setsVars, gramVars, lowerVars, pc>>

BitSetNext ==
  \/ \E i \in BitIndices : Insert(i)
  \/ Clear
  \/ UnionWith
  \/ Iter
  \/ IterNext
  \/ IterDrop

BitSetSpec == BitSetInit /\ [][BitSetNext]_vars

\* C9: after any sequence of clear and insert(i), i < n, on a BitSet created with
\* new(n), get(j) is true exactly for the j < n inserted since the last clear.
C9_GetIffInserted ==
  \A j \in 0..(NumBits - 1) : get(bs_other, j) <=> j \in inserted

\* C10: self.union_with(other) leaves self the union of the old self and other,
\* leaves other as it was, and returns true exactly when some index was in other
\* and not in the old self; a union_with right after a union_with returns false.
C10_UnionWith ==
  [][op' = "union_with" =>
       /\ Members(bs_self') = Members(bs_self) \cup Members(bs_other)
       /\ bs_other' = bs_other
       /\ ret' = (Members(bs_other) \ Members(bs_self) # {})
       /\ (op = "union_with" => ret' = FALSE)]_vars

\* A union_with that added an index of the second block to a non-empty set.
C10_Witness ==
  /\ op = "union_with"
  /\ ret
  /\ BLOCK_NBITS \in Members(bs_self)
  /\ Members(bs_self) # Members(bs_other)
  /\ Members(bs_other) # {}

\* The items of a sequence are strictly ascending.
Ascending(seq) == \A i, j \in DOMAIN seq : i < j => seq[i] < seq[j]

\* C11: the items an Iter over a BitSet returns are strictly ascending indices
\* inserted since the last clear, and when next returns None they are all of
\* them, each once.
C11_IterAscending ==
  it # <<>> =>
    /\ Ascending(yielded)
    /\ Range(yielded) \subseteq inserted
    /\ (op = "next" /\ item = <<>> => Range(yielded) = inserted)

\* An Iter has ended after returning the first index, the indices at both
\* sides of the block boundary and the last index.
C11_Witness ==
  /\ op = "next" /\ item = <<>>
  /\ yielded = <<0, BLOCK_NBITS - 1, BLOCK_NBITS, NumBits - 1>>

(***************************************************************************)
(*                 Nullable and FIRST (src/parser/sets.rs)                 *)
(***************************************************************************)

\* Bounds of the BNFs the fixpoints are run on.
MaxNonterms == 2
NumTokens == 2
MaxProds == 3
MaxRhs == 2

\* Symbol::Term / Symbol::Nonterm
Term(id) == [t |-> "Term", id |-> id]
Nonterm(id) == [t |-> "Nonterm", id |-> id]

\* The Bnf values Bnf::parse builds from a text of at most MaxProds lines over
\* n nonterminals: the productions of nonterminal 0 first, then those of
\* nonterminal 1, ..., every nonterminal with at least one production.
ParsedBnfs(n) ==
  LET Syms == {Term(t) : t \in 0..(NumTokens - 1)} \cup {Nonterm(m) : m \in 0..(n - 1)}
      Rhs == UNION {[1..l -> Syms] : l \in 0..MaxRhs}
      Lists == UNION {[1..l -> [nonterm_id : 0..(n - 1), symbols : Rhs]] : l \in n..MaxProds}
  IN  {[tokens |-> NumTokens, nonterms |-> n, prods |-> ps] : ps \in
        {ps \in Lists :
           /\ \A m \in 0..(n - 1) : \E i \in DOMAIN ps : ps[i].nonterm_id = m
           /\ \A i \in DOMAIN ps : i > 1 => ps[i - 1].nonterm_id <= ps[i].nonterm_id}}

\* is_nullable
is_nullable(nul, sym) ==
  IF sym.t = "Term" THEN FALSE ELSE nul[sym.id + 1]

\* The body of gen_nullable's for loop for production prod: when every symbol
\* of the production is nullable, changed |= nullable[nt_ix] and then
\* nullable[nt_ix] = true.
nullable_step(prod, nul, chg) ==
  IF \A k \in DOMAIN prod.symbols : is_nullable(nul, prod.symbols[k])
  THEN LET nt_ix == prod.nonterm_id + 1
       IN  [nullable |-> [nul EXCEPT ![nt_ix] = TRUE], changed |-> chg \/ nul[nt_ix]]
  ELSE [nullable |-> nul, changed |-> chg]

\* A compute_first_for_symbols that adds the lookaheads wherever the scan ends.
RECURSIVE compute_first_with_lookaheads(_, _, _, _, _)
compute_first_with_lookaheads(res, fst, nul, syms, lookaheads) ==
  LET last == IF lookaheads # <<>> THEN union_with(res, lookaheads[1]).slice ELSE res
  IN  IF syms = <<>> THEN last
      ELSE IF Head(syms).t = "Term" THEN insert(last, Head(syms).id)
      ELSE IF ~nul[Head(syms).id + 1]
      THEN union_with(last, fst[Head(syms).id + 1]).slice
      ELSE compute_first_with_lookaheads(union_with(res, fst[Head(syms).id + 1]).slice,
                                         fst, nul, Tail(syms), lookaheads)

\* compute_first_for_symbols; lookaheads is <<>> (None) or <<set>> (Some).
RECURSIVE compute_first_for_symbols(_, _, _, _, _)
compute_first_for_symbols(res, fst, nul, syms, lookaheads) ==
  IF syms = <<>>
  THEN IF lookaheads # <<>> THEN union_with(res, lookaheads[1]).slice ELSE res
  ELSE LET sym == Head(syms)
       IN  IF sym.t = "Term" THEN insert(res, sym.id)
           ELSE LET merged == union_with(res, fst[sym.id + 1]).slice
                IN  IF ~nul[sym.id + 1] THEN merged
                    ELSE compute_first_for_symbols(merged, fst, nul, Tail(syms), lookaheads)

\* The body of gen_first's for loop for production prod: buf is cleared,
\* filled by compute_first_for_symbols and united into first[nonterm_id].
first_step(num_tokens, prod, fst, nul, chg) ==
  LET buf == compute_first_for_symbols(clear(new(num_tokens)), fst, nul,
                                       prod.symbols, <<>>)
      nt_ix == prod.nonterm_id + 1
      u == union_with(fst[nt_ix], buf)
  IN  [first |-> [fst EXCEPT ![nt_ix] = u.slice], changed |-> chg \/ u.changed]

\* gen_nullable has been called on a parsed BNF: nullable = vec![false; n],
\* and the first pass begins (changed = false, the for loop at the first
\* production).
SetsInit ==
  /\ bnf \in UNION {ParsedBnfs(n) : n \in 1..MaxNonterms}
  /\ nullable = [m \in 1..bnf.nonterms |-> FALSE]
  /\ first = <<>>
  /\ changed = FALSE
  /\ next_prod = 0
  /\ FirstOfIdle
  /\ pc = "gen_nullable"
  /\ BitIdle /\ GramIdle /\ LowerIdle

\* gen_nullable's for loop takes the next production.
NullableStep ==
  /\ pc = "gen_nullable"
  /\ next_prod < Len(bnf.prods)
  /\ LET r == nullable_step(bnf.prods[next_prod + 1], nullable, changed)
     IN  nullable' = r.nullable /\ changed' = r.changed
  /\ next_prod' = next_prod + 1
  /\ UNCHANGED <<bnf, first, pc, firstOfVars, bitVars, gramVars, lowerVars>>

\* The end of a pass of gen_nullable: break when changed is false, and else
\* the next pass.  On the break gen_nullable returns and gen_first is called
\* with its result: first = vec![new(tokens); n].
NullableEndPass ==
  /\ pc = "gen_nullable"
  /\ next_prod = Len(bnf.prods)
  /\ next_prod' = 0
  /\ changed' = FALSE
  /\ IF changed
     THEN UNCHANGED <<first, pc>>
     ELSE /\ pc' = "gen_first"
          /\ first' = [m \in 1..bnf.nonterms |-> new(bnf.tokens)]
  /\ UNCHANGED <<bnf, nullable, firstOfVars, bitVars, gramVars, lowerVars>>

\* gen_first's for loop takes the next production.
FirstStep ==
  /\ pc = "gen_first"
  /\ next_prod < Len(bnf.prods)
  /\ LET r == first_step(bnf.tokens, bnf.prods[next_prod + 1], first, nullable, changed)
     IN  first' = r.first /\ changed' = r.changed
  /\ next_prod' = next_prod + 1
  /\ UNCHANGED <<bnf, nullable, pc, firstOfVars, bitVars, gramVars, lowerVars>>

\* The end of a pass of gen_first.
FirstEndPass ==
  /\ pc = "gen_first"
  /\ next_prod = Len(bnf.prods)
  /\ next_prod' = 0
  /\ changed' = FALSE
  /\ pc' = IF changed THEN "gen_first" ELSE "done"
  /\ UNCHANGED <<bnf, nullable, first, firstOfVars, bitVars, gramVars, lowerVars>>

SetsNext == NullableStep \/ NullableEndPass \/ FirstStep \/ FirstEndPass

\* The fixpoints run in one thread with nothing to wait for: a step that can
\* be taken is taken.
SetsSpec == SetsInit /\ [][SetsNext]_vars /\ WF_vars(SetsNext)

\* The nonterminals that derive the empty string: the least set closed under
\* "some production has a right-hand side of nonterminals of the set only".
RECURSIVE NullableClosure(_, _)
NullableClosure(b, S) ==
  LET T == S \cup {b.prods[i].nonterm_id : i \in
                    {i \in DOMAIN b.prods : \A k \in DOMAIN b.prods[i].symbols :
                        /\ b.prods[i].symbols[k].t = "Nonterm"
                        /\ b.prods[i].symbols[k].id \in S}}
  IN  IF T = S THEN S ELSE NullableClosure(b, T)

DerivesEmpty(b) == NullableClosure(b, {})

\* The terminals that begin a string derived from each nonterminal: the least
\* sets closed under "a production N -> X1 .. Xk-1 Xk .. with X1 .. Xk-1 all
\* deriving the empty string gives N the terminal Xk, or what begins Xk".
RECURSIVE BeginsClosure(_, _)
BeginsClosure(b, F) ==
  LET G == [m \in 0..(b.nonterms - 1) |-> F[m] \cup
             {t \in 0..(b.tokens - 1) : \E i \in DOMAIN b.prods :
                /\ b.prods[i].nonterm_id = m
                /\ \E k \in DOMAIN b.prods[i].symbols :
                     /\ \A j \in 1..(k - 1) :
                          /\ b.prods[i].symbols[j].t = "Nonterm"
                          /\ b.prods[i].symbols[j].id \in DerivesEmpty(b)
                     /\ \/ b.prods[i].symbols[k] = Term(t)
                        \/ /\ b.prods[i].symbols[k].t = "Nonterm"
                           /\ t \in F[b.prods[i].symbols[k].id]}]
  IN  IF G = F THEN F ELSE BeginsClosure(b, G)

Begins(b) == BeginsClosure(b, [m \in 0..(b.nonterms - 1) |-> {}])

\* C1: the vector gen_nullable returns has nullable[N] true exactly for the
\* nonterminals N that derive the empty string.
C1_NullableIffDerivesEmpty ==
  pc \in {"gen_first", "done"} =>
    \A m \in 0..(bnf.nonterms - 1) : nullable[m + 1] <=> m \in DerivesEmpty(bnf)

\* C2: gen_nullable terminates: its loop is eventually left.
C2_GenNullableTerminates == <>(pc # "gen_nullable")

\* C3: gen_first on the vector gen_nullable returned for the same BNF returns
\* sets with t in first[N] exactly when N derives a string that begins with t.
C3_FirstIffBegins ==
  pc = "done" =>
    \A m \in 0..(bnf.nonterms - 1) : Members(first[m + 1]) = Begins(bnf)[m]

\* The BitSet of new(NumTokens) with the tokens of S inserted.
TokenSet(S) == [i \in DOMAIN new(NumTokens) |-> S]

\* compute_first_for_symbols is about to be called: result holds nothing or
\* the last token; first holds, for every nonterminal, nothing, the first
\* token or every token; nullable is any vector; symbols is any sequence of at
\* most MaxRhs symbols; lookaheads is None or Some of nothing, the first or
\* the last token.
FirstOfInit ==
  /\ cf_result \in {TokenSet({}), TokenSet({NumTokens - 1})}
  /\ first \in [1..MaxNonterms ->
                  {TokenSet({}), TokenSet({0}), TokenSet(0..(NumTokens - 1))}]
  /\ nullable \in [1..MaxNonterms -> BOOLEAN]
  /\ cf_symbols \in UNION {[1..l -> {Term(t) : t \in 0..(NumTokens - 1)}
                                      \cup {Nonterm(m) : m \in 0..(MaxNonterms - 1)}] :
                             l \in 0..MaxRhs}
  /\ cf_lookaheads \in {<<>>, <<TokenSet({})>>, <<TokenSet({0})>>,
                        <<TokenSet({NumTokens - 1})>>}
  /\ bnf = <<>> /\ changed = FALSE /\ next_prod = 0
  /\ pc = "first_of"
  /\ BitIdle /\ GramIdle /\ LowerIdle

\* compute_first_for_symbols(&mut result, &first, &nullable, &symbols, lookaheads)
ComputeFirst ==
  /\ pc = "first_of"
  /\ cf_result' = compute_first_for_symbols(cf_result, first, nullable, cf_symbols,
                                            cf_lookaheads)
  /\ pc' = "first_of_done"
  /\ UNCHANGED <<bnf, nullable, first, changed, next_prod, cf_symbols, cf_lookaheads,
                 bitVars, gramVars, lowerVars>>

FirstOfNext == ComputeFirst

FirstOfSpec == FirstOfInit /\ [][FirstOfNext]_vars

\* The positions of syms at which the scan stops: a terminal or a nonterminal
\* that is not nullable.
Stops(syms, nul) == {i \in DOMAIN syms : ~is_nullable(nul, syms[i])}

\* The positions of syms the scan visits: up to the first one at which it stops.
Visited(syms, nul) == {i \in DOMAIN syms : \A j \in Stops(syms, nul) : i <= j}

\* The terminals the scan of syms finds: a terminal itself, first[M] for a
\* nonterminal M.
Scanned(syms, fst, nul) ==
  UNION {IF syms[i].t = "Term" THEN {syms[i].id} ELSE Members(fst[syms[i].id + 1]) :
           i \in Visited(syms, nul)}

\* C16: compute_first_for_symbols adds to result exactly the terminals the scan
\* of the symbols finds, and the lookaheads exactly when there are some and no
\* symbol stops the scan; with no symbols and no lookaheads result is left as
\* it was.
C16_FirstOfSymbols ==
  [][pc' = "first_of_done" =>
       /\ Members(cf_result') =
            Members(cf_result) \cup Scanned(cf_symbols, first, nullable)
              \cup (IF Stops(cf_symbols, nullable) = {} /\ cf_lookaheads # <<>>
                    THEN Members(cf_lookaheads[1]) ELSE {})
       /\ (cf_symbols = <<>> /\ cf_lookaheads = <<>> => cf_result' = cf_result)]_vars

\* The scan ran over two nullable nonterminals to the end, where the
\* lookaheads brought a token no FIRST set held.
C16_Witness ==
  /\ pc = "first_of_done"
  /\ cf_symbols = <<Nonterm(0), Nonterm(1)>>
  /\ nullable = <<TRUE, TRUE>>
  /\ first = <<TokenSet({0}), TokenSet({})>>
  /\ cf_lookaheads = <<TokenSet({NumTokens - 1})>>
  /\ Members(cf_result) = {0, NumTokens - 1}

(***************************************************************************)
(*                     Grammar DSL (src/grammar.rs)                        *)
(***************************************************************************)

\* RuleInner.  Every variant is a record of the same shape: k is the variant,
\* sym the name of a Sym, rules the sub-rules in order (sep before rule for
\* SepBy and SepBy1), prec and assoc the fields of a Prec.  The variant
\* grammar.rs calls Some is the one bnf.rs and the combinators' users call
\* Many1.
RuleSym(name) == [k |-> "Sym", sym |-> name, rules |-> <<>>, prec |-> 0, assoc |-> "None"]
RuleSeq(rules) == [k |-> "Seq", sym |-> "", rules |-> rules, prec |-> 0, assoc |-> "None"]
RuleOr(rules) == [k |-> "Or", sym |-> "", rules |-> rules, prec |-> 0, assoc |-> "None"]
RuleMany(rule) == [k |-> "Many", sym |-> "", rules |-> <<rule>>, prec |-> 0, assoc |-> "None"]
RuleMany1(rule) == [k |-> "Many1", sym |-> "", rules |-> <<rule>>, prec |-> 0, assoc |-> "None"]
RuleOption(rule) == [k |-> "Option", sym |-> "", rules |-> <<rule>>, prec |-> 0, assoc |-> "None"]
RuleSepBy(sep, rule) == [k |-> "SepBy", sym |-> "", rules |-> <<sep, rule>>, prec |-> 0, assoc |-> "None"]
RuleSepBy1(sep, rule) == [k |-> "SepBy1", sym |-> "", rules |-> <<sep, rule>>, prec |-> 0, assoc |-> "None"]
RulePrec(p, a, rule) == [k |-> "Prec", sym |-> "", rules |-> <<rule>>, prec |-> p, assoc |-> a]

\* Result<(), String>: Ok(()) is the empty sequence, Err(msg) is <<msg>>.
Ok == <<>>
Err(msg) == <<msg>>

\* The result of the first element of seq (in order) whose result is an Err,
\* as the ? operator in a for loop returns it; Ok when there is none.
FirstErr(results) ==
  IF \A i \in DOMAIN results : results[i] = Ok THEN Ok
  ELSE results[CHOOSE i \in DOMAIN results :
                 /\ results[i] # Ok
                 /\ \A j \in 1..(i - 1) : results[j] = Ok]

\* A RuleInner::validate that takes a Prec for valid without looking inside.
RECURSIVE validate_rule_prec_unchecked(_, _)
validate_rule_prec_unchecked(rule, names) ==
  CASE rule.k = "Sym" ->
         IF rule.sym \notin names
         THEN Err("symbol '" \o rule.sym \o "' is undefined")
         ELSE Ok
    [] rule.k = "Prec" -> Ok
    [] OTHER ->
         FirstErr([i \in DOMAIN rule.rules |->
                     validate_rule_prec_unchecked(rule.rules[i], names)])

\* RuleInner::validate
RECURSIVE validate_rule(_, _)
validate_rule(rule, names) ==
  CASE rule.k = "Sym" ->
         IF rule.sym \notin names
         THEN Err("symbol '" \o rule.sym \o "' is undefined")
         ELSE Ok
    [] rule.k \in {"Seq", "Or"} ->
         FirstErr([i \in DOMAIN rule.rules |-> validate_rule(rule.rules[i], names)])
    [] rule.k \in {"Many", "Many1", "Option"} ->
         validate_rule(rule.rules[1], names)
    [] rule.k \in {"SepBy", "SepBy1"} ->
         FirstErr(<<validate_rule(rule.rules[1], names),
                    validate_rule(rule.rules[2], names)>>)
    [] rule.k = "Prec" ->
         validate_rule(rule.rules[1], names)

\* Grammar::validate
validate(g) ==
  LET token_names == Range(g.tokens)
      rule_names == {g.rules[i].name : i \in DOMAIN g.rules}
      names == token_names \cup rule_names
      start_errs == [i \in DOMAIN g.start |->
                       IF g.start[i] \notin rule_names
                       THEN Err("start rule '" \o g.start[i] \o "' is undefined")
                       ELSE Ok]
  IN  IF g.tokens = <<>> THEN Err("token list is empty")
      ELSE IF Cardinality(token_names) # Len(g.tokens)
      THEN Err("duplicate token found in token list")
      ELSE IF g.start = <<>> THEN Err("start rule list is empty")
      ELSE IF Cardinality(Range(g.start)) < Len(g.start)
      THEN Err("duplicate token found in start list")
      ELSE IF FirstErr(start_errs) # Ok THEN FirstErr(start_errs)
      ELSE IF Cardinality(names) # Cardinality(token_names) + Cardinality(rule_names)
      THEN Err("token name collides with rule name")
      ELSE FirstErr([i \in DOMAIN g.rules |-> validate_rule(g.rules[i].rule, names)])

\* The rules one combinator makes of the rules of Subs, with the names of
\* Seconds as the other sub-rule of a combinator of two.
MaxPrec == 1
Precs == 1..MaxPrec
Combined(Subs, Seconds) ==
  {RuleSeq(<<r, RuleSym(x)>>) : r \in Subs, x \in Seconds}
    \cup {RuleOr(<<r, RuleSym(x)>>) : r \in Subs, x \in Seconds}
    \cup {RuleMany(r) : r \in Subs} \cup {RuleMany1(r) : r \in Subs}
    \cup {RuleOption(r) : r \in Subs}
    \cup {RuleSepBy(r, RuleSym(x)) : r \in Subs, x \in Seconds}
    \cup {RuleSepBy1(RuleSym(x), r) : r \in Subs, x \in Seconds}
    \cup {RulePrec(p, "Left", r) : p \in Precs, r \in Subs}

\* The rules of one combinator, or none, over the names of Leaves.
SmallRules(Leaves, Seconds) ==
  {RuleSym(x) : x \in Leaves} \cup Combined({RuleSym(x) : x \in Leaves}, Seconds)

\* The rules of at most two combinators over the names of Leaves, and the
\* empty sequence.
RulesOver(Leaves, Seconds) ==
  SmallRules(Leaves, Seconds) \cup Combined(SmallRules(Leaves, Seconds), Seconds)
    \cup {RuleSeq(<<>>)}

\* The grammars validate is tried on: at most two tokens of the names a and A,
\* at most two start names, a rule A (a name a token may take too) over the
\* names a, A and u, and with or without a rule B.
MaxTokens == 2
MaxStarts == 2
ValidateGrammars ==
  LET Tokens == UNION {[1..l -> {"a", "A"}] : l \in 0..MaxTokens}
      Starts == UNION {[1..l -> {"A", "B"}] : l \in 0..MaxStarts}
      Rules == {<<[name |-> "A", rule |-> r]>> : r \in RulesOver({"a", "A", "u"}, {"a", "A", "u"})}
                 \cup {<<[name |-> "A", rule |-> r], [name |-> "B", rule |-> RuleSym("a")]>> :
                         r \in RulesOver({"a", "A", "u"}, {"a", "A", "u"})}
  IN  [tokens : Tokens, start : Starts, rules : Rules]

\* grammar(tokens, start, rules) has built a Grammar.
ValidateInit ==
  /\ grammar \in ValidateGrammars
  /\ result = Ok
  /\ pc = "validate"
  /\ BitIdle /\ SetsIdle /\ LowerIdle

\* result = grammar.validate(); validate borrows the grammar (&self).
Validate ==
  /\ pc = "validate"
  /\ result' = validate(grammar)
  /\ pc' = "validated"
  /\ UNCHANGED <<grammar, bitVars, setsVars, lowerVars>>

ValidateNext == Validate

ValidateSpec == ValidateInit /\ [][ValidateNext]_vars

\* The names of the Sym rules anywhere in a rule.
RECURSIVE SymNames(_)
SymNames(rule) ==
  IF rule.k = "Sym" THEN {rule.sym}
  ELSE UNION {SymNames(rule.rules[i]) : i \in DOMAIN rule.rules}

\* What makes a grammar invalid.
Invalid(g) ==
  LET token_names == Range(g.tokens)
      rule_names == {g.rules[i].name : i \in DOMAIN g.rules}
  IN  \/ g.tokens = <<>>
      \/ \E i, j \in DOMAIN g.tokens : i # j /\ g.tokens[i] = g.tokens[j]
      \/ g.start = <<>>
      \/ \E i, j \in DOMAIN g.start : i # j /\ g.start[i] = g.start[j]
      \/ \E i \in DOMAIN g.start : g.start[i] \notin rule_names
      \/ token_names \cap rule_names # {}
      \/ \E i \in DOMAIN g.rules :
           \E x \in SymNames(g.rules[i].rule) : x \notin token_names \cup rule_names

\* C8: validate returns an error exactly for the grammars with an empty or
\* repeating token list, an empty or repeating start list, a start name that is
\* no rule, a name that is a token and a rule, or a Sym at any depth that names
\* neither; else it returns Ok.  The grammar is as it was.
C8_ValidateErrIffInvalid ==
  [][pc' = "validated" =>
       /\ (result' # Ok <=> Invalid(grammar))
       /\ grammar' = grammar]_vars

\* validate has refused a grammar whose only fault is an undefined Sym under a
\* Prec under another combinator.
C8_Witness ==
  /\ pc = "validated"
  /\ result = Err("symbol 'u' is undefined")
  /\ \E r \in Range(grammar.rules) :
       \E q \in Range(r.rule.rules) : q.k = "Prec" /\ "u" \in SymNames(q)

(***************************************************************************)
(*                  Lowering a Grammar to a Bnf (src/bnf.rs)               *)
(***************************************************************************)

\* Production::default() and Nonterm::default()
DefaultProduction ==
  [nonterm_id |-> 0, action |-> "None", prec |-> <<>>, assoc |-> "None", symbols |-> <<>>]
DefaultNonterm == [name |-> "", prod_range |-> [start |-> 0, end |-> 0]]

\* RuleInner::name: the name of the nonterminal synthesized for a sub-rule,
\* derived from the shape of the sub-rule.
RECURSIVE name(_)
name(rule) ==
  CASE rule.k = "Sym" -> rule.sym
    [] rule.k = "Seq" ->
         IF rule.rules = <<>> THEN "()"
         ELSE "(" \o name(RuleSeq(SubSeq(rule.rules, 1, Len(rule.rules) - 1)))
                  \o " " \o name(rule.rules[Len(rule.rules)]) \o ")"
    [] rule.k = "Or" ->
         IF rule.rules = <<>> THEN "(|)"
         ELSE "(" \o name(RuleOr(SubSeq(rule.rules, 1, Len(rule.rules) - 1)))
                  \o " | " \o name(rule.rules[Len(rule.rules)]) \o ")"
    [] rule.k = "Many" -> name(rule.rules[1]) \o "*"
    [] rule.k = "Many1" -> name(rule.rules[1]) \o "+"
    [] rule.k = "Option" -> name(rule.rules[1]) \o "?"
    [] rule.k = "SepBy" ->
         "sepBy(" \o name(rule.rules[1]) \o "," \o name(rule.rules[2]) \o ")"
    [] rule.k = "SepBy1" ->
         "sepBy1(" \o name(rule.rules[1]) \o "," \o name(rule.rules[2]) \o ")"
    [] rule.k = "Prec" ->
         "prec(" \o ToString(rule.prec) \o "," \o rule.assoc \o ","
                 \o name(rule.rules[1]) \o ")"

\* The lowering state is the record st of the three values every lowering
\* function borrows mutably: nonterms, prods and symbols (a map from names to
\* Symbols, here a function).

\* Whether symbols.get(name) is Some(Symbol::Nonterm(_)).
is_nonterm(st, nm) == nm \in DOMAIN st.symbols /\ st.symbols[nm].t = "Nonterm"

\* prods[prod_ix].nonterm_id = id for prod_ix in range
set_nonterm_id(ps, range, id) ==
  [i \in DOMAIN ps |->
     IF range.start <= i - 1 /\ i - 1 < range.end
     THEN [ps[i] EXCEPT !.nonterm_id = id] ELSE ps[i]]

\* insert_nonterm
insert_nonterm(st, nm, nonterm) ==
  IF is_nonterm(st, nm)
  THEN LET id == st.symbols[nm].id
       IN  [st |-> [nonterms |-> [st.nonterms EXCEPT ![id + 1] = nonterm],
                    prods |-> set_nonterm_id(st.prods, nonterm.prod_range, id),
                    symbols |-> st.symbols],
            id |-> id]
  ELSE LET id == Len(st.nonterms)
       IN  [st |-> [nonterms |-> Append(st.nonterms, nonterm),
                    prods |-> set_nonterm_id(st.prods, nonterm.prod_range, id),
                    symbols |-> (nm :> Nonterm(id)) @@ st.symbols],
            id |-> id]

\* The loop of the two Prec arms,
\*   for prod_ix in &mut nonterms[id].prod_range { prods[prod_ix].prec = ..; .. }
\* It iterates the stored range itself: every next() advances prod_range.start,
\* which is left at prod_range.end.
stamp_prec(st, id, prec, assoc) ==
  LET range == st.nonterms[id + 1].prod_range
  IN  [nonterms |-> [st.nonterms EXCEPT ![id + 1].prod_range.start =
                       IF range.start < range.end THEN range.end ELSE range.start],
       prods |-> [i \in DOMAIN st.prods |->
                    IF range.start <= i - 1 /\ i - 1 < range.end
                    THEN [st.prods[i] EXCEPT !.prec = <<prec>>, !.assoc = assoc]
                    ELSE st.prods[i]],
       symbols |-> st.symbols]

\* prods.push(prod)
push_prod(st, prod) == [st EXCEPT !.prods = Append(st.prods, prod)]

\* Below, every call of a lowering function is the argument of the operator
\* that models the code after the call, so that its result (the state st it
\* leaves and the value it returns) is named once.

RECURSIVE gen_nonterm(_, _, _)
RECURSIVE gen_prod(_, _, _)
RECURSIVE gen_sym(_, _)
RECURSIVE gen_syms(_, _, _)
RECURSIVE gen_prods(_, _, _, _)

\* rules.into_iter().map(|rule| gen_sym(..)).collect(): the symbols of the
\* rules left, after those of acc.
gen_syms_next(g, rules, acc) == gen_syms(g.st, rules, Append(acc, g.sym))
gen_syms(st, rules, acc) ==
  IF rules = <<>> THEN [st |-> st, symbols |-> acc]
  ELSE gen_syms_next(gen_sym(st, Head(rules)), Tail(rules), acc)

\* rules.into_iter().map(|rule| gen_prod(.., ProdAction::None, rule)).collect()
gen_prods_next(g, action, rules, acc) ==
  gen_prods(g.st, action, rules, Append(acc, g.prod))
gen_prods(st, action, rules, acc) ==
  IF rules = <<>> THEN [st |-> st, prods |-> acc]
  ELSE gen_prods_next(gen_prod(st, action, Head(rules)), action, Tail(rules), acc)

\* gen_nonterm for Sym and Seq, after gen_prod returned g: the production is
\* pushed and is the range of the nonterminal.
nonterm_of_prod(g, nm) ==
  LET prod_ix == Len(g.st.prods)
  IN  insert_nonterm(push_prod(g.st, g.prod), nm,
                     [name |-> nm, prod_range |-> [start |-> prod_ix, end |-> prod_ix + 1]])

\* gen_nonterm for Or, after the alternatives' productions g were made: they
\* are appended and are the range of the nonterminal.
nonterm_of_prods(g, nm) ==
  insert_nonterm([g.st EXCEPT !.prods = g.st.prods \o g.prods], nm,
                 [name |-> nm,
                  prod_range |-> [start |-> Len(g.st.prods),
                                  end |-> Len(g.st.prods) + Len(g.prods)]])

\* A closure of Many whose second production is rule* -> rule rule*.
many_body_right(s, id) ==
  LET prod_start_ix == Len(s.st.prods)
      p1 == [DefaultProduction EXCEPT !.nonterm_id = id, !.action = "StartMany"]
      p2 == [DefaultProduction EXCEPT !.nonterm_id = id, !.action = "ContinueMany",
                                      !.symbols = <<s.sym, Nonterm(id)>>]
  IN  [st |-> push_prod(push_prod(s.st, p1), p2),
       range |-> [start |-> prod_start_ix, end |-> prod_start_ix + 2]]

\* The closure of Many after gen_sym returned s: rule* -> (empty) and
\* rule* -> rule* rule.
many_body(s, id) ==
  LET prod_start_ix == Len(s.st.prods)
      p1 == [DefaultProduction EXCEPT !.nonterm_id = id, !.action = "StartMany"]
      p2 == [DefaultProduction EXCEPT !.nonterm_id = id, !.action = "ContinueMany",
                                      !.symbols = <<Nonterm(id), s.sym>>]
  IN  [st |-> push_prod(push_prod(s.st, p1), p2),
       range |-> [start |-> prod_start_ix, end |-> prod_start_ix + 2]]

\* The closure of Many1 after gen_sym returned s: rule+ -> rule and
\* rule+ -> rule+ rule.
many1_body(s, id) ==
  LET prod_start_ix == Len(s.st.prods)
      p1 == [DefaultProduction EXCEPT !.nonterm_id = id, !.action = "StartMany1",
                                      !.symbols = <<s.sym>>]
      p2 == [DefaultProduction EXCEPT !.nonterm_id = id, !.action = "ContinueMany1",
                                      !.symbols = <<Nonterm(id), s.sym>>]
  IN  [st |-> push_prod(push_prod(s.st, p1), p2),
       range |-> [start |-> prod_start_ix, end |-> prod_start_ix + 2]]

\* The closure of Option after gen_prod returned g: rule? -> (empty) and
\* rule? -> rule, the production g with nonterm_id = id.
option_body(g, id) ==
  LET prod_start_ix == Len(g.st.prods)
      p1 == [DefaultProduction EXCEPT !.nonterm_id = id, !.action = "EmptyOption"]
      p2 == [g.prod EXCEPT !.nonterm_id = id]
  IN  [st |-> push_prod(push_prod(g.st, p1), p2),
       range |-> [start |-> prod_start_ix, end |-> prod_start_ix + 2]]

\* The closure of SepBy1 after gen_sym returned sep_sym for sep and s for
\* rule: sepBy1 -> rule and sepBy1 -> sepBy1 sep rule.
sep_by1_body(sep_sym, s, id) ==
  LET prods_start_ix == Len(s.st.prods)
      p1 == [DefaultProduction EXCEPT !.nonterm_id = id, !.action = "StartSepBy1",
                                      !.symbols = <<s.sym>>]
      p2 == [DefaultProduction EXCEPT !.nonterm_id = id, !.action = "ContinueSepBy1",
                                      !.symbols = <<Nonterm(id), sep_sym, s.sym>>]
  IN  [st |-> push_prod(push_prod(s.st, p1), p2),
       range |-> [start |-> prods_start_ix, end |-> prods_start_ix + 2]]

\* The closure of SepBy1 after gen_sym returned sep for sep: gen_sym for rule.
sep_by1_rule(sep, rule, id) == sep_by1_body(sep.sym, gen_sym(sep.st, rule), id)

\* The closures gen_nonterm hands to gen_rep_nonterm for Many, Many1, Option
\* and SepBy1: the productions of nonterminal id for the rule, and their range.
rep_body(st, id, rule) ==
  CASE rule.k = "Many" -> many_body(gen_sym(st, rule.rules[1]), id)
    [] rule.k = "Many1" -> many1_body(gen_sym(st, rule.rules[1]), id)
    [] rule.k = "Option" -> option_body(gen_prod(st, "NonemptyOption", rule.rules[1]), id)
    [] rule.k = "SepBy1" -> sep_by1_rule(gen_sym(st, rule.rules[1]), rule.rules[2], id)

\* gen_rep_nonterm's id for the name: the one it is bound to, or the next one.
rep_id(st, nm) == IF is_nonterm(st, nm) THEN st.symbols[nm].id ELSE Len(st.nonterms)

\* gen_rep_nonterm before the closure runs: a name not bound to a nonterminal
\* is bound to the new id and a default Nonterm is pushed; nonterms[id].name
\* is set.
rep_reserve(st, nm) ==
  LET id == rep_id(st, nm)
      reserved == IF is_nonterm(st, nm) THEN st
                  ELSE [st EXCEPT !.symbols = (nm :> Nonterm(id)) @@ st.symbols,
                                  !.nonterms = Append(st.nonterms, DefaultNonterm)]
  IN  [reserved EXCEPT !.nonterms[id + 1].name = nm]

\* gen_rep_nonterm after the closure returned f: nonterms[id].prod_range is
\* the closure's range.
rep_finish(f, id) ==
  [st |-> [f.st EXCEPT !.nonterms[id + 1].prod_range = f.range], id |-> id]

\* gen_rep_nonterm, with the closure given by the rule it was made for.
gen_rep_nonterm(st, nm, rule) ==
  rep_finish(rep_body(rep_reserve(st, nm), rep_id(st, nm), rule), rep_id(st, nm))

\* gen_nonterm for SepBy after gen_prod returned the production sep_by1 for
\* SepBy1(sep, rule): sepBy -> (empty) and sepBy -> sepBy1.
nonterm_of_sep_by(sep_by1, nm) ==
  LET nonterm == [name |-> nm,
                  prod_range |-> [start |-> Len(sep_by1.st.prods),
                                  end |-> Len(sep_by1.st.prods) + 2]]
      empty == [DefaultProduction EXCEPT !.action = "EmptySepBy"]
  IN  insert_nonterm(push_prod(push_prod(sep_by1.st, empty), sep_by1.prod), nm, nonterm)

\* gen_nonterm for Prec after gen_nonterm returned g for the inner rule.
nonterm_with_prec(g, prec, assoc) ==
  [st |-> stamp_prec(g.st, g.id, prec, assoc), id |-> g.id]

\* gen_nonterm
gen_nonterm(st, nm, rule) ==
  CASE rule.k \in {"Sym", "Seq"} -> nonterm_of_prod(gen_prod(st, "None", rule), nm)
    [] rule.k = "Or" -> nonterm_of_prods(gen_prods(st, "None", rule.rules, <<>>), nm)
    [] rule.k \in {"Many", "Many1", "Option", "SepBy1"} -> gen_rep_nonterm(st, nm, rule)
    [] rule.k = "SepBy" ->
         nonterm_of_sep_by(
           gen_prod(st, "NonemptySepBy", RuleSepBy1(rule.rules[1], rule.rules[2])), nm)
    [] rule.k = "Prec" ->
         nonterm_with_prec(gen_nonterm(st, nm, rule.rules[1]), rule.prec, rule.assoc)

\* gen_prod for Seq after the symbols g of the sub-rules were made.
prod_of_syms(g, action) ==
  [st |-> g.st,
   prod |-> [DefaultProduction EXCEPT !.action = action, !.symbols = g.symbols]]

\* gen_prod for Prec after gen_prod returned g for the inner rule.
prod_with_prec(g, prec, assoc) ==
  [st |-> g.st, prod |-> [g.prod EXCEPT !.prec = <<prec>>, !.assoc = assoc]]

\* gen_prod for the other rules after gen_sym returned g.
prod_of_sym(g, action) ==
  [st |-> g.st,
   prod |-> [DefaultProduction EXCEPT !.action = action, !.symbols = <<g.sym>>]]

\* gen_prod
gen_prod(st, action, rule) ==
  CASE rule.k = "Seq" -> prod_of_syms(gen_syms(st, rule.rules, <<>>), action)
    [] rule.k = "Prec" ->
         prod_with_prec(gen_prod(st, action, rule.rules[1]), rule.prec, rule.assoc)
    [] OTHER -> prod_of_sym(gen_sym(st, rule), action)

\* gen_sym for Prec after gen_sym returned s for a clone of the inner rule: a
\* terminal is made a nonterminal by gen_nonterm under the inner rule's name,
\* a nonterminal is taken as it is.
prec_target(s, inner) ==
  IF s.sym.t = "Term" THEN gen_nonterm(s.st, name(inner), inner)
  ELSE [st |-> s.st, id |-> s.sym.id]

\* gen_sym for Prec once the nonterminal g.id is there.
sym_with_prec(g, prec, assoc) ==
  [st |-> stamp_prec(g.st, g.id, prec, assoc), sym |-> Nonterm(g.id)]

\* gen_sym for the other rules after gen_nonterm returned g.
sym_of_nonterm(g) == [st |-> g.st, sym |-> Nonterm(g.id)]

\* gen_sym
gen_sym(st, rule) ==
  CASE rule.k = "Sym" -> [st |-> st, sym |-> st.symbols[rule.sym]]
    [] rule.k = "Prec" ->
         sym_with_prec(prec_target(gen_sym(st, rule.rules[1]), rule.rules[1]),
                       rule.prec, rule.assoc)
    [] OTHER -> sym_of_nonterm(gen_nonterm(st, name(rule), rule))

\* The symbols table From<Grammar> starts lowering with: every rule bound to
\* the nonterminal of its index, then every token bound to its terminal.
initial_symbols(g) ==
  [x \in Range(g.tokens) \cup {g.rules[i].name : i \in DOMAIN g.rules} |->
     IF x \in Range(g.tokens)
     THEN Term((CHOOSE i \in DOMAIN g.tokens : g.tokens[i] = x) - 1)
     ELSE Nonterm((CHOOSE i \in DOMAIN g.rules : g.rules[i].name = x) - 1)]

\* The grammars lowered: the token a, the rules A and B, each over the names
\* a, A and B, one of them of at most one combinator, the other of at most
\* two, or a Prec of one combinator under another, or a sequence of the same
\* sub-rule twice; and A, or B and A, as the start names.
LowerGrammars ==
  LET Small == SmallRules({"a", "A", "B"}, {"a"})
      Big == RulesOver({"a", "A", "B"}, {"a"})
              \cup Combined({RulePrec(p, "Left", r) :
                               p \in Precs, r \in Combined({RuleSym("a")}, {"a"})}, {"a"})
              \cup {RuleSeq(<<r, r>>) : r \in Combined({RuleSym("a")}, {"a"})}
      Bodies == (Big \X Small) \cup (Small \X Big)
  IN  {[tokens |-> <<"a">>, start |-> s,
        rules |-> <<[name |-> "A", rule |-> b[1]], [name |-> "B", rule |-> b[2]]>>] :
         s \in {<<"A">>, <<"B", "A">>}, b \in Bodies}

\* Parser::new has validated the grammar and From<Grammar>::from has numbered
\* the tokens, filled the symbols table and reserved a default Nonterm for
\* every rule.
LowerInit ==
  /\ grammar \in {g \in LowerGrammars : validate(g) = Ok}
  /\ result = Ok
  /\ tokens = [i \in DOMAIN grammar.tokens |-> [name |-> grammar.tokens[i], id |-> i - 1]]
  /\ symbols = initial_symbols(grammar)
  /\ nonterms = [i \in DOMAIN grammar.rules |-> DefaultNonterm]
  /\ prods = <<>>
  /\ starts = <<>>
  /\ rule_ix = 0
  /\ states = <<>>
  /\ state_starts = <<>>
  /\ pc = "lower"
  /\ BitIdle /\ SetsIdle

\* One turn of the loop over grammar.rules: gen_nonterm for the next rule.
LowerRule ==
  /\ pc = "lower"
  /\ rule_ix < Len(grammar.rules)
  /\ \E g \in {gen_nonterm([nonterms |-> nonterms, prods |-> prods, symbols |-> symbols],
                           grammar.rules[rule_ix + 1].name,
                           grammar.rules[rule_ix + 1].rule)} :
       /\ nonterms' = g.st.nonterms
       /\ prods' = g.st.prods
       /\ symbols' = g.st.symbols
  /\ rule_ix' = rule_ix + 1
  /\ UNCHANGED <<grammar, result, tokens, starts, states, state_starts, pc,
                 bitVars, setsVars>>

\* After the loop: every start name is bound to symbols[name].unwrap_nonterm()
\* and the Bnf is returned.
BuildBnf ==
  /\ pc = "lower"
  /\ rule_ix = Len(grammar.rules)
  /\ \A i \in DOMAIN grammar.start : symbols[grammar.start[i]].t = "Nonterm"
  /\ starts' = [i \in DOMAIN grammar.start |->
                  [name |-> grammar.start[i], id |-> symbols[grammar.start[i]].id]]
  /\ pc' = "lowered"
  /\ UNCHANGED <<grammar, result, tokens, nonterms, prods, symbols, rule_ix,
                 states, state_starts, bitVars, setsVars>>

\* An augment whose new production refers to the new nonterminal itself.
augment_start_self(b, i) ==
  LET new_id == Len(b.nonterms)
  IN  [starts |-> [b.starts EXCEPT ![i].id = new_id],
       nonterms |-> Append(b.nonterms,
                           [name |-> "$start(" \o b.starts[i].name \o ")",
                            prod_range |-> [start |-> Len(b.prods),
                                            end |-> Len(b.prods) + 1]]),
       prods |-> Append(b.prods,
                        [DefaultProduction EXCEPT !.nonterm_id = new_id,
                                                  !.symbols = <<Nonterm(new_id)>>])]

\* One turn of augment's loop, for the i-th entry (name, id) of starts: the
\* nonterminal $start(name) and its production are pushed, and the entry is
\* rebound to the new id.
augment_start(b, i) ==
  LET new_id == Len(b.nonterms)
  IN  [starts |-> [b.starts EXCEPT ![i].id = new_id],
       nonterms |-> Append(b.nonterms,
                           [name |-> "$start(" \o b.starts[i].name \o ")",
                            prod_range |-> [start |-> Len(b.prods),
                                            end |-> Len(b.prods) + 1]]),
       prods |-> Append(b.prods,
                        [DefaultProduction EXCEPT !.nonterm_id = new_id,
                                                  !.symbols = <<Nonterm(b.starts[i].id)>>])]

\* The turns of augment's loop from the i-th entry of starts on.
RECURSIVE augment_from(_, _)
augment_from(b, i) ==
  IF i > Len(b.starts) THEN b ELSE augment_from(augment_start(b, i), i + 1)

\* Bnf::augment
augment(b) == augment_from(b, 1)

\* Parser::new: bnf.augment()
Augment ==
  /\ pc = "lowered"
  /\ \E b \in {augment([starts |-> starts, nonterms |-> nonterms, prods |-> prods])} :
       /\ starts' = b.starts
       /\ nonterms' = b.nonterms
       /\ prods' = b.prods
  /\ pc' = "augmented"
  /\ UNCHANGED <<grammar, result, tokens, symbols, rule_ix, states, state_starts,
                 bitVars, setsVars>>

\* The u32 values tried as what gen_states_for_start returns.
MaxStateIx == 1

\* gen_states_for_start.  Its body is empty: it adds no state to the table,
\* and no statement gives the u32 it returns, which is any value (ret).
gen_states_for_start(b, sts, start, ret_any) == [states |-> sts, ret |-> ret_any]

\* gen_states after a call of gen_states_for_start returned g: the start is
\* bound to the index returned.
starts_insert(g, sts_starts, start) ==
  [states |-> g.states, starts |-> (start :> g.ret) @@ sts_starts]

\* The loop of gen_states over the values of bnf.starts from the i-th on;
\* rets[i] is what the i-th call of gen_states_for_start returns.
RECURSIVE gen_states_from(_, _, _, _)
gen_states_from(b, acc, i, rets) ==
  IF i > Len(b.starts) THEN acc
  ELSE gen_states_from(
         b,
         starts_insert(gen_states_for_start(b, acc.states, b.starts[i].id, rets[i]),
                       acc.starts, b.starts[i].id),
         i + 1, rets)

\* gen_states
gen_states(b, rets) == gen_states_from(b, [states |-> <<>>, starts |-> <<>>], 1, rets)

\* Parser::new: gen_states(&bnf)
GenStates ==
  /\ pc = "augmented"
  /\ \E rets \in [DOMAIN starts -> 0..MaxStateIx] :
       \E r \in {gen_states([starts |-> starts, nonterms |-> nonterms, prods |-> prods],
                            rets)} :
         /\ states' = r.states
         /\ state_starts' = r.starts
  /\ pc' = "states"
  /\ UNCHANGED <<grammar, result, tokens, starts, nonterms, prods, symbols, rule_ix,
                 bitVars, setsVars>>

Next == LowerRule \/ BuildBnf \/ Augment \/ GenStates

Spec == LowerInit /\ [][Next]_vars

\* The Prec rules of a rule body that lowering stamps a nonterminal for, each
\* with the name the nonterminal is bound to in symbols: pos is the function
\* the rule is handed to ("nonterm" for gen_nonterm with the name nm, "prod"
\* for gen_prod, "sym" for gen_sym). A Prec handed to gen_prod marks the one
\* production being built and is not among them.
RECURSIVE TargetName(_)
TargetName(rule) == IF rule.k = "Prec" THEN TargetName(rule.rules[1]) ELSE name(rule)

RECURSIVE PrecSites(_, _, _)
PrecSites(rule, pos, nm) ==
  LET Each(p) == UNION {PrecSites(rule.rules[i], p, nm) : i \in DOMAIN rule.rules}
  IN  CASE pos = "nonterm" /\ rule.k = "Prec" ->
             {[target |-> nm, prec |-> rule.prec, assoc |-> rule.assoc,
               inner |-> rule.rules[1], pos |-> pos]}
               \cup PrecSites(rule.rules[1], "nonterm", nm)
        [] pos = "nonterm" /\ rule.k \in {"Sym", "Seq"} -> PrecSites(rule, "prod", nm)
        [] pos = "nonterm" /\ rule.k \in {"Or", "Option"} -> Each("prod")
        [] pos = "nonterm" /\ rule.k \in {"Many", "Many1", "SepBy", "SepBy1"} -> Each("sym")
        [] pos = "prod" /\ rule.k = "Seq" -> Each("sym")
        [] pos = "prod" /\ rule.k = "Prec" -> Each("prod")
        [] pos = "prod" /\ rule.k \notin {"Seq", "Prec"} -> PrecSites(rule, "sym", nm)
        [] pos = "sym" /\ rule.k = "Sym" -> {}
        [] pos = "sym" /\ rule.k = "Prec" ->
             {[target |-> TargetName(rule.rules[1]), prec |-> rule.prec,
               assoc |-> rule.assoc, inner |-> rule.rules[1], pos |-> pos]}
               \cup Each("sym")
        [] pos = "sym" /\ rule.k \notin {"Sym", "Prec"} ->
             PrecSites(rule, "nonterm", name(rule))

\* The Prec sites of the grammar's rules.
GrammarPrecSites(g) ==
  UNION {PrecSites(g.rules[i].rule, "nonterm", g.rules[i].name) : i \in DOMAIN g.rules}

\* The rules below a rule, itself included.
RECURSIVE SubRules(_)
SubRules(rule) == {rule} \cup UNION {SubRules(rule.rules[i]) : i \in DOMAIN rule.rules}

\* The indices (from 0) of the productions whose nonterm_id is id.
ProdsOf(id) == {i \in 0..(Len(prods) - 1) : prods[i + 1].nonterm_id = id}

\* C4: once a validated grammar is lowered, every nonterminal's prod_range is
\* non-empty and inside 0..prods.len(), and the ranges of two distinct
\* nonterminals do not overlap.
C4_ProdRanges ==
  pc = "lowered" =>
    /\ \A i \in DOMAIN nonterms :
         /\ nonterms[i].prod_range.start < nonterms[i].prod_range.end
         /\ nonterms[i].prod_range.end <= Len(prods)
    /\ \A i, j \in DOMAIN nonterms :
         i # j => \/ nonterms[i].prod_range.end <= nonterms[j].prod_range.start
                  \/ nonterms[j].prod_range.end <= nonterms[i].prod_range.start

\* C5: once a validated grammar is lowered, every production's index is in
\* the prod_range of the nonterminal its nonterm_id names (and of no other).
C5_NontermIdOfRange ==
  pc = "lowered" =>
    \A i \in 0..(Len(prods) - 1) :
      /\ \E n \in DOMAIN nonterms :
           /\ nonterms[n].prod_range.start <= i
           /\ i < nonterms[n].prod_range.end
      /\ \A n \in DOMAIN nonterms :
           nonterms[n].prod_range.start <= i /\ i < nonterms[n].prod_range.end
             => prods[i + 1].nonterm_id = n - 1

\* C6: once a validated grammar is lowered, for every Prec(p, a, inner) that
\* lowering stamps a nonterminal for, every production of the nonterminal
\* inner lowered to has prec = Some(p) and assoc = a.
C6_PrecStampsAll ==
  pc = "lowered" =>
    \A site \in GrammarPrecSites(grammar) :
      \A i \in ProdsOf(symbols[site.target].id) :
        prods[i + 1].prec = <<site.prec>> /\ prods[i + 1].assoc = site.assoc

\* C7: once a validated grammar is lowered, for every Prec(p, a, Sym(x)) that
\* was a sub-symbol: a nonterminal that is not one of the rules has the one
\* production x stamped with p and a; the name x is bound to what it was
\* bound to before lowering; and the productions of a rule x whose body has
\* no Prec have no precedence.
C7_PrecOverSymIsFresh ==
  pc = "lowered" =>
    \A site \in {t \in GrammarPrecSites(grammar) : t.pos = "sym" /\ t.inner.k = "Sym"} :
      LET x == site.inner.sym
      IN  /\ \E id \in Len(grammar.rules)..(Len(nonterms) - 1) :
               /\ ProdsOf(id) # {}
               /\ \A i \in ProdsOf(id) :
                    /\ prods[i + 1].symbols = <<initial_symbols(grammar)[x]>>
                    /\ prods[i + 1].prec = <<site.prec>>
                    /\ prods[i + 1].assoc = site.assoc
          /\ symbols[x] = initial_symbols(grammar)[x]
          /\ \A r \in DOMAIN grammar.rules :
               /\ grammar.rules[r].name = x
               /\ \A q \in SubRules(grammar.rules[r].rule) : q.k # "Prec"
               => \A i \in ProdsOf(r - 1) : prods[i + 1].prec = <<>>

\* C12: augment appends, for every start name S bound to N, one nonterminal
\* $start(S) with one new production $start(S) -> N of action None and no
\* precedence, rebinds S to it, and leaves the nonterminals and productions
\* there were, and the tokens, as they are.
C12_Augment ==
  [][pc' = "augmented" =>
       /\ tokens' = tokens
       /\ Len(nonterms') = Len(nonterms) + Len(starts)
       /\ Len(prods') = Len(prods) + Len(starts)
       /\ SubSeq(nonterms', 1, Len(nonterms)) = nonterms
       /\ SubSeq(prods', 1, Len(prods)) = prods
       /\ Len(starts') = Len(starts)
       /\ \A i, j \in DOMAIN starts : i # j => starts'[i].id # starts'[j].id
       /\ \A i \in DOMAIN starts :
            LET new_id == starts'[i].id
            IN  /\ starts'[i].name = starts[i].name
                /\ new_id \in Len(nonterms)..(Len(nonterms') - 1)
                /\ nonterms'[new_id + 1].name = "$start(" \o starts[i].name \o ")"
                /\ nonterms'[new_id + 1].prod_range.start \in Len(prods)..(Len(prods') - 1)
                /\ nonterms'[new_id + 1].prod_range.end
                     = nonterms'[new_id + 1].prod_range.start + 1
                /\ prods'[nonterms'[new_id + 1].prod_range.start + 1]
                     = [nonterm_id |-> new_id, action |-> "None", prec |-> <<>>,
                        assoc |-> "None", symbols |-> <<Nonterm(starts[i].id)>>]]_vars

\* A Bnf of two start names is augmented.
C12_Witness ==
  /\ pc = "augmented"
  /\ Len(starts) = 2
  /\ nonterms[starts[2].id + 1].name = "$start(A)"
  /\ prods[Len(prods)].symbols = <<Nonterm(0)>>

\* C14: gen_states binds every augmented start nonterminal, and nothing else,
\* to the index of a state of the states table whose kernel is the one item
\* of the start's production.
C14_StartStates ==
  pc = "states" =>
    /\ DOMAIN state_starts = {starts[i].id : i \in DOMAIN starts}
    /\ \A n \in DOMAIN state_starts :
         /\ state_starts[n] < Len(states)
         /\ states[state_starts[n] + 1].key = <<[nonterm |-> n, prod_ix |-> 0]>>

\* The sub-rules gen_sym synthesizes a nonterminal for, each with the name of
\* the nonterminal, in the order lowering reaches them (a sub-rule as often as
\* it is reached): pos is the function the rule is handed to, as for
\* PrecSites, and toks the token names.  A Prec around the Sym of a token
\* reaches the Sym under the token's name; a rule's own body is not among
\* them.
RECURSIVE Reached(_, _, _)
RECURSIVE ReachedAll(_, _, _)
ReachedAll(rules, pos, toks) ==
  IF rules = <<>> THEN <<>>
  ELSE Reached(Head(rules), pos, toks) \o ReachedAll(Tail(rules), pos, toks)
Reached(rule, pos, toks) ==
  CASE pos = "nonterm" /\ rule.k = "Prec" -> Reached(rule.rules[1], "nonterm", toks)
    [] pos = "nonterm" /\ rule.k \in {"Sym", "Seq"} -> Reached(rule, "prod", toks)
    [] pos = "nonterm" /\ rule.k \in {"Or", "Option"} -> ReachedAll(rule.rules, "prod", toks)
    [] pos = "nonterm" /\ rule.k \in {"Many", "Many1", "SepBy1"} ->
         ReachedAll(rule.rules, "sym", toks)
    [] pos = "nonterm" /\ rule.k = "SepBy" ->
         Reached(RuleSepBy1(rule.rules[1], rule.rules[2]), "prod", toks)
    [] pos = "prod" /\ rule.k = "Seq" -> ReachedAll(rule.rules, "sym", toks)
    [] pos = "prod" /\ rule.k = "Prec" -> Reached(rule.rules[1], "prod", toks)
    [] pos = "prod" /\ rule.k \notin {"Seq", "Prec"} -> Reached(rule, "sym", toks)
    [] pos = "sym" /\ rule.k = "Sym" -> <<>>
    [] pos = "sym" /\ rule.k = "Prec" ->
         IF rule.rules[1].k = "Sym"
         THEN IF rule.rules[1].sym \in toks
              THEN <<[name |-> rule.rules[1].sym, rule |-> rule.rules[1]]>>
              ELSE <<>>
         ELSE Reached(rule.rules[1], "sym", toks)
    [] pos = "sym" /\ rule.k \notin {"Sym", "Prec"} ->
         <<[name |-> name(rule), rule |-> rule]>> \o Reached(rule, "nonterm", toks)

\* The names reached while the rules of a grammar are lowered, from the i-th
\* rule on, in order.
RECURSIVE GrammarReached(_, _)
GrammarReached(g, i) ==
  IF i > Len(g.rules) THEN <<>>
  ELSE [j \in DOMAIN Reached(g.rules[i].rule, "nonterm", Range(g.tokens)) |->
          Reached(g.rules[i].rule, "nonterm", Range(g.tokens))[j].name]
         \o GrammarReached(g, i + 1)

\* A sequence without the items that occurred before in it.
RECURSIVE FirstOccurrences(_)
FirstOccurrences(seq) ==
  IF seq = <<>> THEN <<>>
  ELSE LET init == SubSeq(seq, 1, Len(seq) - 1)
       IN  IF seq[Len(seq)] \in Range(init) THEN FirstOccurrences(init)
           ELSE Append(FirstOccurrences(init), seq[Len(seq)])

\* C13: once a validated grammar of k rules is lowered, the i-th rule is the
\* nonterminal of id i, which has the rule's name, and the nonterminals from
\* id k on are the synthesized ones, in the order lowering first reached them.
C13_NontermIdOrder ==
  pc = "lowered" =>
    /\ \A i \in DOMAIN grammar.rules :
         /\ symbols[grammar.rules[i].name] = Nonterm(i - 1)
         /\ nonterms[i].name = grammar.rules[i].name
    /\ [j \in 1..(Len(nonterms) - Len(grammar.rules)) |->
          nonterms[Len(grammar.rules) + j].name]
         = FirstOccurrences(GrammarReached(grammar, 1))

\* The part of C13 about the rules: the i-th rule is the nonterminal of id i
\* and has the rule's name, and the other nonterminals are those of the
\* names lowering reached.
C13_SynthesizedAfterRules ==
  pc = "lowered" =>
    /\ \A i \in DOMAIN grammar.rules :
         /\ symbols[grammar.rules[i].name] = Nonterm(i - 1)
         /\ nonterms[i].name = grammar.rules[i].name
    /\ {nonterms[j].name : j \in (Len(grammar.rules) + 1)..Len(nonterms)}
         = Range(GrammarReached(grammar, 1))
    /\ Len(nonterms) - Len(grammar.rules)
         = Cardinality(Range(GrammarReached(grammar, 1)))

\* The sub-rules gen_nonterm makes a nonterminal of while the i-th rule of a
\* grammar is lowered, each with the nonterminal's name: the rule's body and
\* the sub-rules reached in it.
NontermCalls(g, i) ==
  {[name |-> g.rules[i].name, rule |-> g.rules[i].rule]}
    \cup Range(Reached(g.rules[i].rule, "nonterm", Range(g.tokens)))

\* The names of the nonterminals a Prec of the i-th rule stamps.
PrecTargets(g, i) ==
  {site.target : site \in PrecSites(g.rules[i].rule, "nonterm", g.rules[i].name)}

\* The nonterminal the name nm is bound to in syms has, in nts and ps, the two
\* productions of the combinator at the top of rule.
TwoProds(nm, rule, nts, ps, syms) ==
  LET X == syms[nm].id
      range == nts[X + 1].prod_range
      p1 == ps[range.start + 1]
      p2 == ps[range.start + 2]
      Rec == Len(p2.symbols) >= 2 /\ p2.symbols[1] = Nonterm(X)
  IN  /\ syms[nm].t = "Nonterm"
      /\ range.end = range.start + 2
      /\ range.end <= Len(ps)
      /\ CASE rule.k = "Many" ->
                p1.action = "StartMany" /\ p2.action = "ContinueMany" /\ Rec
           [] rule.k = "Many1" ->
                p1.action = "StartMany1" /\ p2.action = "ContinueMany1" /\ Rec
           [] rule.k = "Option" ->
                p1.action = "EmptyOption" /\ p2.action = "NonemptyOption"
           [] rule.k = "SepBy1" ->
                p1.action = "StartSepBy1" /\ p2.action = "ContinueSepBy1" /\ Rec
           [] rule.k = "SepBy" ->
                /\ p1.action = "EmptySepBy" /\ p1.symbols = <<>>
                /\ p2.action = "NonemptySepBy"
                /\ p2.symbols = <<syms[name(RuleSepBy1(rule.rules[1], rule.rules[2]))]>>
                /\ p2.symbols[1].t = "Nonterm"

====
